---- MODULE Spec2Model ----
(***************************************************************************)
(* Model of the SkuVault web service (skuvault_web_service.py):            *)
(*   - DirectionsCache, the TTL + capacity bounded response cache;         *)
(*   - the request pipeline of SkuVaultWebService (_make_request,          *)
(*     _apply_rate_limit, _handle_cors_preflight, _handle_retry);          *)
(*   - the credential life cycle (login, check_cached_token, logout).      *)
(* Time is an integer clock (seconds).  A Python dict is a sequence of     *)
(* entries in insertion order, which is the order min() scans it in.       *)
(* asyncio runs one task at a time: an action is the code between two      *)
(* awaits that suspend.                                                    *)
(***************************************************************************)
EXTENDS Integers, Sequences, FiniteSets, TLC

\* ---------------------------------------------------------------- bounds
MaxTime == 3
\* The last value of the clock where login, logout, the fetch of directions
\* and the cache operations run together.
MaxServiceTime == 2
MaxCap == 2
MaxTtl == 2
MaxRetries == 2
\* self.cors_preflight_ttl (300 s in the source) on the model's clock.
PreflightTtl == 2
\* hash() is a digest of fixed width; the model narrows it so that distinct
\* header sets do share a value.
HashSpace == 2
\* _set_api_headers draws a fresh uuid4 each time it runs (the model numbers
\* them 1, 2, ...); it runs at most this many times.
MaxHeaderSets == 2
\* logout() schedules one background invalidation; at most this many pending.
MaxPending == 1
\* A record passed to merge brings at most this many order items.
MaxSourceItems == 2
\* The "lists" array of a sessions payload has at most this many entries.
MaxLists == 2

\* Picklist ids used as cache keys, and JSON payloads.  "empty" is a payload
\* that Python treats as false ({} or []); "d1" is a non-empty one.
Keys == {"p1", "p2", "p3"}
Payloads == {"d1", "empty"}
None == "None"

\* Bearer tokens the server can hand out in the sv-t cookie.
Tokens == {"T1", "T2"}
\* Concurrent callers (asyncio tasks) of one service instance.
Tasks == {"a", "b"}
\* Picklist ids the callers ask directions for.
CallKeys == {"p1"}
\* response.status_code of a primary request; 0 stands for "no response".
Statuses == {200, 400, 500}
NoResponse == 0
\* Seconds the blocking session.options call of a preflight takes.
Durations == {0, 1}
\* settings...rate_limit.request_delay and settings...error.retry_delay.
RequestDelays == {0, 1}
RetryDelays == {1, 2}

VARIABLES
    now,               \* time.time()
    max_size,          \* DirectionsCache._max_size
    ttl_seconds,       \* DirectionsCache._ttl_seconds
    directions_cache,  \* DirectionsCache._cache, in insertion order
    dcWritten,         \* per key: the last set not yet invalidated, cleared or evicted
    request_delay,     \* settings.skuvault.scraping.rate_limit.request_delay
    max_retries,       \* settings.skuvault.scraping.error.max_retries
    retry_delay,       \* settings.skuvault.scraping.error.retry_delay
    callers,           \* the tasks that call the service
    horizon,           \* the last value of the clock
    saturates,         \* whether the last value of the clock stands for every
                       \* later time, so that a sleep running past it ends there
    is_authenticated,  \* self.is_authenticated
    auth_token,        \* self.auth_token
    session_headers,   \* self.session.headers: Authorization, idempotency-key
                       \* (self.session.cookies: see AttemptOkLoginSubmit)
    stored_token,      \* TokenCacheService's record for source "skuvault_web"
    pending_invalidate,\* background _invalidate_cached_token tasks not yet run
    stored_before_logout, \* the stored token was stored before the last logout
    cors_preflight_cache, \* self.cors_preflight_cache
    tasks,             \* per caller: the call in progress and where it is suspended
    running,           \* the task inside a stretch of code with no await, if any
    lastDispatch,      \* the time the last request left, -1 before the first
    dcLast,            \* the direct cache operation of the last step and its result
    reqLast,           \* the _make_request attempt made by the last step, if any
    canonical,         \* the SessionOrder that merge is called on (self)
    sources,           \* the kind of records callers pass to merge
    mergeLast,         \* the merge call made by the last step, if any
    fetchLast          \* the fetch operation that returned in the last step, if any

cacheConf == <<max_size, ttl_seconds>>
confVars ==
    <<request_delay, max_retries, retry_delay, callers, horizon, saturates>>
authVars == <<is_authenticated, auth_token, session_headers>>
storeVars == <<stored_token, pending_invalidate, stored_before_logout>>
reqVars == <<cors_preflight_cache, tasks, running, lastDispatch>>
svcVars == <<confVars, authVars, storeVars, reqVars>>
obsVars == <<dcLast, reqLast, mergeLast, fetchLast>>
orderVars == <<canonical, sources>>
vars ==
    <<now, cacheConf, directions_cache, dcWritten, svcVars, obsVars, orderVars>>

\* ------------------------------------------------------- DirectionsCache
CacheKeys(cache) == {cache[i].key : i \in DOMAIN cache}

CacheIndex(cache, k) == CHOOSE i \in DOMAIN cache : cache[i].key = k

CacheEntry(cache, k) == cache[CacheIndex(cache, k)]

RemoveAt(cache, i) == SubSeq(cache, 1, i - 1) \o SubSeq(cache, i + 1, Len(cache))

\* >= in place of >: an entry aged exactly the TTL is expired.
DirectionsCache_is_expired_at_ttl(item, current_time) ==
    current_time - item.timestamp >= ttl_seconds

\* current_time - cached_item["timestamp"] > self._ttl_seconds
DirectionsCache_is_expired(item, current_time) ==
    current_time - item.timestamp > ttl_seconds

\* min(self._cache.keys(), key=timestamp): the first key, in insertion
\* order, among those of least timestamp.
OldestIndex(cache) ==
    CHOOSE i \in DOMAIN cache :
        /\ \A j \in DOMAIN cache : cache[i].timestamp <= cache[j].timestamp
        /\ \A j \in DOMAIN cache :
              cache[j].timestamp = cache[i].timestamp => i <= j

\* max() in place of min(): the newest entry goes.
DirectionsCache_evict_newest(cache) ==
    IF cache = <<>> THEN cache
    ELSE RemoveAt(cache,
                  CHOOSE i \in DOMAIN cache :
                      \A j \in DOMAIN cache :
                          cache[i].timestamp >= cache[j].timestamp)

\* The entry inserted last is the victim.
DirectionsCache_evict_last_inserted(cache) ==
    IF cache = <<>> THEN cache ELSE RemoveAt(cache, Len(cache))

\* if not self._cache: return; oldest_key = min(..., key=timestamp); del.
DirectionsCache_evict_oldest(cache) ==
    IF cache = <<>> THEN cache ELSE RemoveAt(cache, OldestIndex(cache))

\* self._cache[picklist_id] = {...}: an existing key keeps its position.
CachePut(cache, k, data, current_time) ==
    LET item == [key |-> k, data |-> data, timestamp |-> current_time]
    IN  IF k \in CacheKeys(cache)
        THEN [cache EXCEPT ![CacheIndex(cache, k)] = item]
        ELSE Append(cache, item)

DirectionsCache_set(cache, k, data, current_time) ==
    LET c1 == IF Len(cache) >= max_size
              THEN DirectionsCache_evict_oldest(cache) ELSE cache
    IN  CachePut(c1, k, data, current_time)

\* A read refreshes the entry: its timestamp becomes the time of the read.
DirectionsCache_get_touch(cache, k, current_time) ==
    [cache EXCEPT ![CacheIndex(cache, k)].timestamp = current_time]

\* return cached_item["data"]: the cache after a hit.
DirectionsCache_get_hit(cache, k, current_time) == cache

\* get: [ret, cache]; an expired entry is deleted.
DirectionsCache_get(cache, k, current_time) ==
    IF k \notin CacheKeys(cache)
    THEN [ret |-> None, cache |-> cache]
    ELSE IF DirectionsCache_is_expired(CacheEntry(cache, k), current_time)
         THEN [ret |-> None, cache |-> RemoveAt(cache, CacheIndex(cache, k))]
         ELSE [ret |-> CacheEntry(cache, k).data,
               cache |-> DirectionsCache_get_hit(cache, k, current_time)]

DirectionsCache_invalidate(cache, k) ==
    IF k \in CacheKeys(cache) THEN RemoveAt(cache, CacheIndex(cache, k)) ELSE cache

DirectionsCache_clear(cache) == <<>>

\* utilization_percent divides by max_size: ZeroDivisionError when it is 0.
DirectionsCache_get_stats(cache, current_time) ==
    [total_items |-> Len(cache),
     max_size |-> max_size,
     expired_items |->
        Cardinality({i \in DOMAIN cache :
                        DirectionsCache_is_expired(cache[i], current_time)}),
     utilization_percent |->
        IF max_size = 0 THEN "ZeroDivisionError"
        ELSE (Len(cache) * 100) \div max_size]

\* The writes still in force after a cache operation took pre to post:
\* a key that left the cache through set, invalidate or clear is forgotten.
NoWrite == [data |-> None, at |-> -1]

Forget(written, pre, post) ==
    [k \in Keys |->
        IF k \in CacheKeys(pre) /\ k \notin CacheKeys(post)
        THEN NoWrite ELSE written[k]]

NoOp == [op |-> "none", key |-> None, ret |-> None, evicted |-> {}]


\* ------------------------------------------------- SkuVaultWebService
RECURSIVE Pow2(_)
Pow2(n) == IF n = 0 THEN 1 ELSE 2 * Pow2(n - 1)

\* if cached_data: a payload that Python treats as false is no hit.
Truthy(data) == data # None /\ data # "empty"

\* self.session.headers before any _set_api_headers: no Authorization and
\* no idempotency-key.
NoHeaders == [Authorization |-> None, idem |-> 0]

NoToken == [token |-> None, expired |-> TRUE]

\* The urls requests go to: the login url, or the directions url of a
\* picklist on lmdb.skuvault.com.
LoginUrl == "login_url"
Urls == {LoginUrl} \cup CallKeys

\* A caller that is in no call.  retry_count, sleeps, sends, optAt (the
\* time of the last OPTIONS request, -1 if there was none) and key (the
\* idempotency-key of the last primary request, -1 if there was none)
\* belong to the current _make_request call; fresh and tok to the operation
\* that made it.
IdleTask ==
    [op |-> "none", method |-> None, url |-> None, pc |-> "idle", wake |-> 0,
     retry_count |-> 0, sleeps |-> <<>>, sends |-> 0, optAt |-> -1,
     key |-> -1, fresh |-> FALSE, tok |-> None, afterLogout |-> FALSE]

\* No attempt was made in the step.  Of an attempt: whether it ended the
\* _make_request call, whether its response was below 400, the response
\* returned, the sends and the backoff sleeps of the call so far, and what
\* the preflight did: answered from the cache (pfHit) or sent as an OPTIONS
\* request (pfIssued), what it returned (pfOk), and whether the primary
\* request followed it (primary); the time the attempt began (at) and the
\* time of the last OPTIONS request of an earlier attempt of the call
\* (pfPrev, -1 if there was none); the url of the primary request, the
\* idempotency-key it carried (key, 0 if it carried none) and the one the
\* primary request of the attempt before carried (prevKey, -1 on the first
\* attempt of a call).
NoReq ==
    [attempt |-> FALSE, returned |-> FALSE, ok |-> FALSE,
     resp |-> NoResponse, sends |-> 0, sleeps |-> <<>>,
     pfHit |-> FALSE, pfAuth |-> None, reqAuth |-> None, gaps |-> {},
     pfIssued |-> FALSE, pfOk |-> TRUE, primary |-> FALSE,
     at |-> 0, pfPrev |-> -1, url |-> None, key |-> 0, prevKey |-> -1]

TokenCode(tok) == IF tok = "T1" THEN 1 ELSE IF tok = "T2" THEN 2 ELSE 0

\* hash(frozenset(headers.items())) of the request headers.
HeaderHash(headers) ==
    (TokenCode(headers.Authorization) + headers.idem) % HashSpace

\* cache_key = f"{url}:{hash(...)}"
PreflightKey(url, headers) == [url |-> url, fp |-> HeaderHash(headers)]

\* current_time - cached_result["timestamp"] < self.cors_preflight_ttl
PreflightValid(entry, current_time) ==
    current_time - entry.timestamp < PreflightTtl

\* _cleanup_cors_preflight_cache: entries of age >= ttl are deleted.
cleanup_cors_preflight_cache(cache, current_time) ==
    {e \in cache : ~(current_time - e.timestamp >= PreflightTtl)}

\* _handle_cors_preflight(url, headers) called at time t0: every way it can
\* end.  issued: an OPTIONS request was sent; t1: the time it returns.  The
\* exception path caches nothing.  An entry also records the Authorization
\* value it was stored under.
handle_cors_preflight(cache, url, headers, t0) ==
    LET key  == PreflightKey(url, headers)
        hits == {e \in cache : e.key = key}
        live == {e \in hits : PreflightValid(e, t0)}
        rest == cache \ hits
    IN  IF live # {}
        THEN {[issued |-> FALSE, success |-> e.success, cache |-> cache,
               t1 |-> t0, hit |-> TRUE, hitAuth |-> e.auth] : e \in live}
        ELSE {[issued |-> TRUE, success |-> FALSE, cache |-> rest,
               t1 |-> t0 + d, hit |-> FALSE, hitAuth |-> None] : d \in Durations}
             \cup
             {[issued |-> TRUE, success |-> ok,
               cache |-> cleanup_cors_preflight_cache(
                            rest \cup {[key |-> key, success |-> ok,
                                        timestamp |-> t0,
                                        auth |-> headers.Authorization]},
                            t0 + d),
               t1 |-> t0 + d, hit |-> FALSE, hitAuth |-> None]
                 : d \in Durations, ok \in BOOLEAN}

\* A GET, or a POST to another host than lmdb.skuvault.com: no preflight.
NoPreflight(cache, t0) ==
    {[issued |-> FALSE, success |-> TRUE, cache |-> cache, t1 |-> t0,
      hit |-> FALSE, hitAuth |-> None]}

\* _set_api_headers without the clear: the entries stay.
set_api_headers_keep_cache(cache) == cache

\* if self.cors_preflight_cache: self.cors_preflight_cache.clear()
set_api_headers_cache(cache) == {}

\* api_headers of _set_api_headers, merged into the session headers.
set_api_headers(tok, headers) ==
    [Authorization |-> tok, idem |-> headers.idem + 1]

\* A failed preflight ends the attempt before the primary request.
aborts_on_failed_preflight(preflight_success) == preflight_success

\* if not preflight_success: self.logger.warning(...), and the code goes on
\* to the primary request whatever the preflight returned.
continues_after_preflight(preflight_success) == TRUE

\* > in place of >=: a status of exactly 400 passes for a success.
is_error_above_400(status) == status > 400

\* if response.status_code >= 400
is_error(status) == status >= 400

\* <= in place of <: one retry more.
should_retry_inclusive(retry_count) == retry_count <= max_retries

\* if retry_count < max_retries
should_retry(retry_count) == retry_count < max_retries

\* The same sleep before every retry.
backoff_constant(retry_count) == retry_delay

\* retry_delay * (2**retry_count)
backoff(retry_count) == retry_delay * Pow2(retry_count)

\* The time of the last dispatch as long as it is less than request_delay
\* old at time t0, else -1: an older dispatch constrains no later one.
Recent(dispatched, t0) ==
    IF dispatched >= 0 /\ t0 - dispatched < request_delay
    THEN dispatched ELSE -1

\* ----------------------------------------------------------- SessionOrder
\* picked_by_user_id: Optional[int] = None, and updated_date before the first
\* merge: the absent value of a field the model holds as an integer.
NoUserId == -1
NoDate == -1

\* Values of the fields merge reads.  Strings may be empty; user id 0 is a
\* number that Python treats as false; datetime objects and SessionState
\* members are always true.
OrderNumbers == {None, "", "ORD-1", "ORD-2"}
UserIds == {NoUserId, 0, 7}

\* OrderItem: the key fields sku and location (each may be absent) and a
\* quantity that tells two items of one key apart; the items of key
\* (A, L1) come in both quantities.
ItemKeys ==
    {<<"A", "L1">>, <<"A", "L2">>, <<None, None>>}
Quantities == {1, 2}
OrderItems ==
    {[sku |-> k[1], location |-> k[2], quantity |-> q] :
        k \in ItemKeys, q \in Quantities}
    \ {[sku |-> k[1], location |-> k[2], quantity |-> 2] :
          k \in ItemKeys \ {<<"A", "L1">>}}

\* Sequences over S of length at most n.
RECURSIVE SeqsUpTo(_, _)
SeqsUpTo(S, n) ==
    IF n = 0 THEN {<<>>}
    ELSE LET shorter == SeqsUpTo(S, n - 1)
         IN  shorter \cup {Append(q, x) : q \in shorter, x \in S}

\* The six other fields merge copies, all absent ("none": None; "empty":
\* empty strings, None elsewhere) or all present with one of two values.
RestProfiles == {"none", "empty", "v1", "v2"}

RestStr(r, v1, v2) ==
    IF r = "none" THEN None
    ELSE IF r = "empty" THEN "" ELSE IF r = "v1" THEN v1 ELSE v2

RestObj(r, v1, v2) ==
    IF r \in {"none", "empty"} THEN None ELSE IF r = "v1" THEN v1 ELSE v2

\* A SessionOrder whose sale_id, spot_number, session_id, document_id,
\* saved_custom_field_2 and shipment_id are at their defaults.  The integer
\* ids are written as strings of digits.
SessionOrder(number, uid, r, items, updated) ==
    [isNone |-> FALSE,
     sale_id |-> None,
     spot_number |-> None,
     session_id |-> None,
     document_id |-> None,
     saved_custom_field_2 |-> FALSE,
     shipment_id |-> None,
     order_number |-> number,
     pick_start_datetime |-> RestObj(r, "d1", "d2"),
     pick_end_datetime |-> RestObj(r, "d1", "d2"),
     picked_by_user_id |-> uid,
     picked_by_user_name |-> RestStr(r, "ann", "bob"),
     session_status |-> RestObj(r, "active", "closed"),
     create_date |-> RestObj(r, "d1", "d2"),
     session_picklist_id |-> RestStr(r, "p1", "p2"),
     order_items |-> items,
     updated_date |-> updated]

\* SessionOrder(): every field at its default.
EmptyOrder == SessionOrder(None, NoUserId, "none", <<>>, NoDate)

\* Values of the six fields that say which order a record is about and what
\* has been done with it downstream: none set, and two orders.
Identities ==
    {[sale_id |-> None, spot_number |-> None, session_id |-> None,
      document_id |-> None, saved_custom_field_2 |-> FALSE,
      shipment_id |-> None],
     [sale_id |-> "SALE1", spot_number |-> "1", session_id |-> "12345",
      document_id |-> "doc1", saved_custom_field_2 |-> TRUE,
      shipment_id |-> "se-1"],
     [sale_id |-> "SALE2", spot_number |-> "2", session_id |-> "67890",
      document_id |-> "doc2", saved_custom_field_2 |-> FALSE,
      shipment_id |-> "se-2"]}

IdentityOf(order) ==
    [sale_id |-> order.sale_id, spot_number |-> order.spot_number,
     session_id |-> order.session_id, document_id |-> order.document_id,
     saved_custom_field_2 |-> order.saved_custom_field_2,
     shipment_id |-> order.shipment_id]

\* SessionOrder(sale_id=..., ..., shipment_id=..., and the fields of order)
WithIdentity(order, ident) ==
    [order EXCEPT !.sale_id = ident.sale_id,
                  !.spot_number = ident.spot_number,
                  !.session_id = ident.session_id,
                  !.document_id = ident.document_id,
                  !.saved_custom_field_2 = ident.saved_custom_field_2,
                  !.shipment_id = ident.shipment_id]

\* Python's None where a SessionOrder is expected.
NoneOrder == [EmptyOrder EXCEPT !.isNone = TRUE]

\* bool(v) of an Optional[str], of an Optional[int], and of an Optional
\* datetime or SessionState.
TruthyStr(v) == v # None /\ v # ""
TruthyInt(v) == v # NoUserId /\ v # 0
TruthyObj(v) == v # None

\* existing_item.sku == source_item.sku, the location not compared.
item_matches_by_sku(existing_item, source_item) ==
    existing_item.sku = source_item.sku

\* existing_item.sku == source_item.sku
\*     and existing_item.location == source_item.location
item_matches(existing_item, source_item) ==
    /\ existing_item.sku = source_item.sku
    /\ existing_item.location = source_item.location

\* The item is appended whether or not its key is there already.
merge_item_append(order_items, source_item) ==
    Append(order_items, source_item)

\* The body of "for source_item in source.order_items": the first matching
\* item is replaced where it stands (break), else the item is appended.
merge_item(order_items, source_item) ==
    LET hits == {i \in DOMAIN order_items :
                    item_matches(order_items[i], source_item)}
    IN  IF hits = {}
        THEN Append(order_items, source_item)
        ELSE LET i == CHOOSE h \in hits : \A g \in hits : h <= g
             IN  [order_items EXCEPT ![i] = source_item]

\* self.order_items.extend(source.order_items): no look-up of the key.
merge_items_extend(order_items, source_items) == order_items \o source_items

RECURSIVE merge_items(_, _)
merge_items(order_items, source_items) ==
    IF source_items = <<>> THEN order_items
    ELSE merge_items(merge_item(order_items, Head(source_items)),
                     Tail(source_items))

\* if source.x and (not self.x or self.x != source.x): self.x = source.x
\* with source_true and self_true for bool(source.x) and bool(self.x), own
\* and theirs for self.x and source.x.
merge_field(source_true, self_true, own, theirs) ==
    IF source_true /\ (~self_true \/ own # theirs) THEN theirs ELSE own

\* The field is copied from the source like the enrichment fields.
merge_unassigned_overwritten(own, theirs) == theirs

\* merge has no assignment to self.sale_id, self.spot_number,
\* self.session_id, self.document_id, self.saved_custom_field_2 or
\* self.shipment_id, and reads none of them from source.
merge_unassigned(own, theirs) == own

\* self.updated_date = self.get_current_us_central_time()
merge_updated_date(updated, current_time) == current_time

\* SessionOrder.merge(self, source) at time current_time: self after the
\* call, and the value the call returns (merge has no return statement).
SessionOrder_merge(self, source, current_time) ==
    IF source.isNone
    THEN [self |-> self, ret |-> NoneOrder]
    ELSE [self |->
            [isNone |-> FALSE,
             sale_id |-> merge_unassigned(self.sale_id, source.sale_id),
             spot_number |->
                merge_unassigned(self.spot_number, source.spot_number),
             session_id |->
                merge_unassigned(self.session_id, source.session_id),
             document_id |->
                merge_unassigned(self.document_id, source.document_id),
             saved_custom_field_2 |->
                merge_unassigned(self.saved_custom_field_2,
                                 source.saved_custom_field_2),
             shipment_id |->
                merge_unassigned(self.shipment_id, source.shipment_id),
             order_items |-> merge_items(self.order_items, source.order_items),
             order_number |->
                merge_field(TruthyStr(source.order_number),
                            TruthyStr(self.order_number),
                            self.order_number, source.order_number),
             pick_start_datetime |->
                merge_field(TruthyObj(source.pick_start_datetime),
                            TruthyObj(self.pick_start_datetime),
                            self.pick_start_datetime, source.pick_start_datetime),
             pick_end_datetime |->
                merge_field(TruthyObj(source.pick_end_datetime),
                            TruthyObj(self.pick_end_datetime),
                            self.pick_end_datetime, source.pick_end_datetime),
             picked_by_user_id |->
                merge_field(TruthyInt(source.picked_by_user_id),
                            TruthyInt(self.picked_by_user_id),
                            self.picked_by_user_id, source.picked_by_user_id),
             picked_by_user_name |->
                merge_field(TruthyStr(source.picked_by_user_name),
                            TruthyStr(self.picked_by_user_name),
                            self.picked_by_user_name, source.picked_by_user_name),
             session_status |->
                merge_field(TruthyObj(source.session_status),
                            TruthyObj(self.session_status),
                            self.session_status, source.session_status),
             create_date |->
                merge_field(TruthyObj(source.create_date),
                            TruthyObj(self.create_date),
                            self.create_date, source.create_date),
             session_picklist_id |->
                merge_field(TruthyStr(source.session_picklist_id),
                            TruthyStr(self.session_picklist_id),
                            self.session_picklist_id, source.session_picklist_id),
             updated_date |->
                merge_updated_date(self.updated_date, current_time)],
          ret |-> NoneOrder]

\* The key of an order item, the set of keys of a list of items, and whether
\* the keys of a list are pairwise distinct.
ItemKey(item) == <<item.sku, item.location>>

ItemKeysOf(items) == {ItemKey(items[i]) : i \in DOMAIN items}

UniqueKeys(items) ==
    \A i, j \in DOMAIN items : ItemKey(items[i]) = ItemKey(items[j]) => i = j

\* No merge call was made in the step.
NoMerge == [op |-> "none", source |-> NoneOrder, ret |-> NoneOrder]

\* The service models hold no SessionOrder.
OrderAtRest ==
    /\ canonical = EmptyOrder
    /\ sources = "none"
    /\ mergeLast = NoMerge

\* No fetch operation returned in the step.  Of one that returned: the
\* operation, why it ended (unauthenticated, bad_states, transport, notjson,
\* payload: a response with a JSON body, hit: data from the directions
\* cache), whether the payload maps to the expected structure as a whole,
\* the list the operation returns (for "directions": get_session_directions),
\* what _get_raw_directions_response returns in its place, and whether an
\* exception left the operation.
NoFetch ==
    [op |-> "none", cause |-> "none", mappable |-> TRUE, parsed |-> <<>>,
     raw |-> None, raised |-> FALSE, replaced |-> None]

\* Bodies of a directions response: JSON payloads, among them one that is
\* not the directions structure, or text that is not JSON.
NotJson == "notjson"
Unmappable == "junk"
Bodies == Payloads \cup {Unmappable, NotJson}

\* get_session_directions and _get_raw_directions_response run the same
\* steps around the cache and differ in what they return (parsed or raw):
\* both are the operation "directions".
Directions == "directions"
SessionsBySaleId == "get_sessions_by_sale_id"
AllSessions == "get_all_sessions"
SessionOps == {SessionsBySaleId, AllSessions}
FetchOps == SessionOps \cup {Directions}
\* get_latest_session_order_state calls the operations above.
LatestState == "get_latest_session_order_state"

\* api_url of the two sessions operations; it is on lmdb.skuvault.com, as
\* the directions urls are.
SessionsUrl == "sessions_url"
LmdbUrls == CallKeys \cup {SessionsUrl}

\* Bodies of a sessions response: text that is not JSON, JSON that is not an
\* object, or an object whose "lists" holds entries that are session objects
\* ("session") or something else ("junk": null, a string, an object with a
\* field of the wrong type).
ListEntries == {"session", "junk"}
SessionBodies ==
    {[json |-> FALSE, dict |-> FALSE, lists |-> <<>>],
     [json |-> TRUE, dict |-> FALSE, lists |-> <<>>]}
    \cup {[json |-> TRUE, dict |-> TRUE, lists |-> l] :
            l \in SeqsUpTo(ListEntries, MaxLists)}

\* The entries of a "lists" array that are no session objects.
JunkAt(lists) == {i \in DOMAIN lists : lists[i] # "session"}

\* The payload is the expected structure throughout.
SessionsMappable(data) == data.dict /\ JunkAt(data.lists) = {}
DirectionsMappable(data) == data # Unmappable

\* n ParsedSession objects.
ParsedSessions(n) == [i \in 1..n |-> "ParsedSession"]

\* _parse_sessions_response: the entries are mapped one by one inside the
\* try; an entry that cannot be mapped raises, the except logs, and the
\* sessions appended so far are returned.
parse_sessions_response(data) ==
    IF ~data.dict THEN <<>>
    ELSE IF JunkAt(data.lists) = {} THEN ParsedSessions(Len(data.lists))
    ELSE ParsedSessions(
            (CHOOSE i \in JunkAt(data.lists) :
                \A j \in JunkAt(data.lists) : i <= j) - 1)

\* _parse_all_sessions_response: SessionsResponse(**data) validates the whole
\* payload before the first session is mapped.
parse_all_sessions_response(data) ==
    IF SessionsMappable(data) THEN ParsedSessions(Len(data.lists)) ELSE <<>>

\* _parse_directions_response: DirectionsResponse(**data) validates the whole
\* payload (on failure: return []); the empty payload has no directions.
parse_directions_response(data) ==
    IF data = "d1" THEN <<"ParsedDirection">> ELSE <<>>

\* The operation ends before it has a payload: return [] (or None).
fetch_failed(op, cause) ==
    [op |-> op, cause |-> cause, mappable |-> TRUE, parsed |-> <<>>,
     raw |-> None, raised |-> FALSE, replaced |-> None]

\* try: data = response.json(); return self._parse_..._response(data)
\* except json.JSONDecodeError: return []; except Exception: return [].
sessions_fetched(op, body) ==
    IF ~body.json THEN fetch_failed(op, "notjson")
    ELSE [op |-> op, cause |-> "payload",
          mappable |-> SessionsMappable(body),
          parsed |-> IF op = SessionsBySaleId
                     THEN parse_sessions_response(body)
                     ELSE parse_all_sessions_response(body),
          raw |-> None, raised |-> FALSE, replaced |-> None]

\* The directions operation has data, from the cache or from a response:
\* return self._parse_directions_response(data, picklist_id), or return data.
directions_fetched(cause, data) ==
    IF data = NotJson THEN fetch_failed(Directions, "notjson")
    ELSE [op |-> Directions, cause |-> cause,
          mappable |-> DirectionsMappable(data),
          parsed |-> parse_directions_response(data),
          raw |-> data, raised |-> FALSE, replaced |-> None]

\* _make_request returned None to the operation op: "if not response:
\* return []" (or None); _make_request called by itself is no fetch operation.
transport_failed(op) ==
    IF op \in FetchOps THEN fetch_failed(op, "transport") ELSE NoFetch

\* The records of a step: the direct cache operation and the attempt; no
\* merge call, no fetch operation that returned.
Obs(dc, req) ==
    /\ dcLast' = dc
    /\ reqLast' = req
    /\ mergeLast' = NoMerge
    /\ fetchLast' = NoFetch

ServiceAtRest ==
    /\ is_authenticated = FALSE
    /\ auth_token = None
    /\ session_headers = NoHeaders
    /\ pending_invalidate = 0
    /\ stored_before_logout = FALSE
    /\ cors_preflight_cache = {}
    /\ tasks = [t \in Tasks |-> IdleTask]
    /\ running = None
    /\ lastDispatch = -1
    /\ reqLast = NoReq
    /\ fetchLast = NoFetch

\* ------------------------------------------------ cache-level actions
InitCache ==
    /\ now = 0
    /\ max_size \in 0..MaxCap
    /\ ttl_seconds \in 1..MaxTtl
    /\ directions_cache = <<>>
    /\ dcLast = NoOp
    /\ OrderAtRest
    /\ dcWritten = [k \in Keys |-> NoWrite]
    /\ request_delay = 1
    /\ max_retries = 0
    /\ retry_delay = 1
    /\ callers = {}
    /\ horizon = MaxTime
    /\ saturates = FALSE
    /\ stored_token = NoToken
    /\ ServiceAtRest

CacheGet(k) ==
    LET r == DirectionsCache_get(directions_cache, k, now)
    IN  /\ directions_cache' = r.cache
        /\ Obs([op |-> "get", key |-> k, ret |-> r.ret, evicted |-> {}], NoReq)
        /\ UNCHANGED <<now, cacheConf, orderVars, dcWritten, svcVars>>

CacheSet(k, v) ==
    LET post == DirectionsCache_set(directions_cache, k, v, now)
    IN  /\ directions_cache' = post
        /\ dcWritten' = [Forget(dcWritten, directions_cache, post)
                            EXCEPT ![k] = [data |-> v, at |-> now]]
        /\ Obs([op |-> "set", key |-> k, ret |-> None,
                evicted |-> CacheKeys(directions_cache) \ CacheKeys(post)],
               NoReq)
        /\ UNCHANGED <<now, cacheConf, orderVars, svcVars>>

CacheInvalidate(k) ==
    /\ directions_cache' = DirectionsCache_invalidate(directions_cache, k)
    /\ dcWritten' = [dcWritten EXCEPT ![k] = NoWrite]
    /\ Obs([op |-> "invalidate", key |-> k, ret |-> None, evicted |-> {}],
           NoReq)
    /\ UNCHANGED <<now, cacheConf, orderVars, svcVars>>

CacheClear ==
    /\ directions_cache' = DirectionsCache_clear(directions_cache)
    /\ dcWritten' = [k \in Keys |-> NoWrite]
    /\ Obs([op |-> "clear", key |-> None, ret |-> None, evicted |-> {}], NoReq)
    /\ UNCHANGED <<now, cacheConf, orderVars, svcVars>>

CacheGetStats ==
    /\ Obs([op |-> "get_stats", key |-> None,
            ret |-> DirectionsCache_get_stats(directions_cache, now),
            evicted |-> {}],
           NoReq)
    /\ UNCHANGED <<now, cacheConf, orderVars, directions_cache, dcWritten, svcVars>>

\* Arguments passed to set_directions_cache_ttl.
RequestedTtls == -1..MaxTtl

\* The requested value becomes the cache's TTL.
set_directions_cache_ttl_applied(current, requested) == requested

\* set_directions_cache_ttl(ttl_seconds) logs the request ("TTL change
\* requires cache reinitialization") and assigns nothing.
set_directions_cache_ttl(current, requested) == current

SetDirectionsCacheTtl(requested) ==
    /\ ttl_seconds' = set_directions_cache_ttl(ttl_seconds, requested)
    /\ Obs([op |-> "set_directions_cache_ttl", key |-> None, ret |-> None,
            evicted |-> {}],
           NoReq)
    /\ UNCHANGED <<now, max_size, orderVars, directions_cache, dcWritten,
                   svcVars>>

\* The clock advances (monotonic), but not inside a stretch of code that
\* has no await.
Tick ==
    /\ now < horizon
    /\ running = None
    /\ now' = now + 1
    /\ lastDispatch' = Recent(lastDispatch, now')
    /\ Obs(NoOp, NoReq)
    /\ UNCHANGED <<cacheConf, orderVars, directions_cache, dcWritten, confVars, authVars,
                   storeVars, cors_preflight_cache, tasks, running>>

NextCache ==
    \/ \E k \in Keys : CacheGet(k)
    \/ \E k \in Keys, v \in Payloads : CacheSet(k, v)
    \/ \E k \in Keys : CacheInvalidate(k)
    \/ CacheClear
    \/ CacheGetStats
    \/ \E requested \in RequestedTtls : SetDirectionsCacheTtl(requested)
    \/ Tick

SpecCache == InitCache /\ [][NextCache]_vars

\* ------------------------------------------------ the request pipeline
\* What an attempt of the primary request ends in: a status code, or an
\* exception raised by the transport.
TransportError == -1
Outcomes == Statuses \cup {TransportError}

\* The attempt goes to _handle_retry.
Failed(o) == o = TransportError \/ is_error(o)

\* The credential: in memory, and in the token store.
Credential ==
    [is_authenticated |-> is_authenticated, auth_token |-> auth_token,
     stored_token |-> stored_token]

\* A failed attempt signs the service out and drops the stored token.
pipeline_credential_dropped_on_failure(o, cred) ==
    IF Failed(o)
    THEN [is_authenticated |-> FALSE, auth_token |-> None,
          stored_token |-> NoToken]
    ELSE cred

\* _make_request, _handle_retry and _handle_cors_preflight assign neither
\* self.is_authenticated nor self.auth_token and never call self.token_cache:
\* whatever the outcome o of the attempt, the credential is what it was.
pipeline_credential(o, cred) == cred

\* The credential after an attempt of the request pipeline that ended in o.
PipelineCredential(o) ==
    LET cred == pipeline_credential(o, Credential)
    IN  /\ is_authenticated' = cred.is_authenticated
        /\ auth_token' = cred.auth_token
        /\ stored_token' = cred.stored_token
        /\ stored_before_logout' = stored_before_logout

\* Only the first attempt of a call sleeps for the rate limit: a retry goes
\* from its backoff sleep straight to the request.
apply_rate_limit_first_attempt_only(task, t0) ==
    IF request_delay > 0 /\ task.retry_count = 0
    THEN [task EXCEPT !.pc = "rate", !.wake = t0 + request_delay]
    ELSE [task EXCEPT !.pc = "ready", !.wake = t0]

\* _apply_rate_limit at time t0: asyncio.sleep(delay) if delay > 0, else the
\* frame goes on without suspending.
apply_rate_limit(task, t0) ==
    IF request_delay > 0
    THEN [task EXCEPT !.pc = "rate", !.wake = t0 + request_delay]
    ELSE [task EXCEPT !.pc = "ready", !.wake = t0]

\* await asyncio.sleep(...) that ends at time wake is over.
Elapsed(wake) == now >= wake \/ (saturates /\ now = horizon)

\* The task that keeps the event loop after task t entered _make_request.
HoldsLoop(t) == IF request_delay > 0 THEN None ELSE t

\* A fresh _make_request(method, url) call (retry_count = 0) at time t0.
NewRequest(task, method, url, t0) ==
    apply_rate_limit([task EXCEPT !.method = method, !.url = url,
                                  !.retry_count = 0, !.sleeps = <<>>,
                                  !.sends = 0, !.optAt = -1,
                                  !.key = -1], t0)

\* Task t is at the point of _make_request that follows _apply_rate_limit.
Ready(t) ==
    \/ tasks[t].pc = "ready" /\ running = t
    \/ tasks[t].pc = "rate" /\ running = None /\ Elapsed(tasks[t].wake)

\* if method.upper() == "POST" and "lmdb.skuvault.com" in url: the preflight
\* outcomes of task t's request, sent at time now.
Preflights(t) ==
    IF tasks[t].method = "POST" /\ tasks[t].url \in LmdbUrls
    THEN handle_cors_preflight(cors_preflight_cache, tasks[t].url,
                               session_headers, now)
    ELSE NoPreflight(cors_preflight_cache, now)

\* Distances between consecutive dispatches made by an attempt at time now:
\* from the last dispatch to this attempt's first request, and from the
\* OPTIONS request to the primary request.
Gaps(pf) ==
    (IF lastDispatch >= 0 THEN {now - lastDispatch} ELSE {})
    \cup (IF pf.issued THEN {pf.t1 - now} ELSE {})

\* request_headers = self.session.headers.copy(); request_headers.update(
\* headers): the callers add Content-Type only.
request_headers == session_headers

\* The primary requests task t's call has sent once the attempt that made
\* the preflight pf is over.
SendsAfter(t, pf) ==
    tasks[t].sends + IF continues_after_preflight(pf.success) THEN 1 ELSE 0

\* The requests of one attempt of task t: the preflight pf, which blocks the
\* loop until pf.t1, then the primary request, which ends in o.
Sent(t, pf, o, returned) ==
    /\ Ready(t)
    /\ pf.t1 <= horizon
    /\ now' = pf.t1
    /\ lastDispatch' = Recent(pf.t1, pf.t1)
    /\ reqLast' = [attempt |-> TRUE, returned |-> returned,
                   ok |-> o # TransportError /\ o < 400,
                   resp |-> IF returned /\ ~Failed(o) THEN o ELSE NoResponse,
                   sends |-> SendsAfter(t, pf), sleeps |-> tasks[t].sleeps,
                   pfHit |-> pf.hit, pfAuth |-> pf.hitAuth,
                   reqAuth |-> session_headers.Authorization,
                   gaps |-> Gaps(pf),
                   pfIssued |-> pf.issued, pfOk |-> pf.success,
                   primary |-> continues_after_preflight(pf.success),
                   at |-> now, pfPrev |-> tasks[t].optAt,
                   url |-> tasks[t].url, key |-> request_headers.idem,
                   prevKey |-> tasks[t].key]
    /\ dcLast' = NoOp
    /\ mergeLast' = NoMerge

\* The operation of task t returns.
Returns(t) ==
    /\ tasks' = [tasks EXCEPT ![t] = IdleTask]
    /\ running' = None

\* A caller invokes _make_request(method, url) itself.
MakeRequest(t, method, url) ==
    /\ t \in callers
    /\ tasks[t].pc = "idle"
    /\ running = None
    /\ tasks' = [tasks EXCEPT ![t] =
                    NewRequest([IdleTask EXCEPT !.op = "_make_request"],
                               method, url, now)]
    /\ running' = HoldsLoop(t)
    /\ Obs(NoOp, NoReq)
    /\ UNCHANGED <<now, cacheConf, orderVars, directions_cache, dcWritten, confVars,
                   authVars, storeVars, cors_preflight_cache, lastDispatch>>

\* _make_request -> _handle_retry, retry_count < max_retries: sleep, then
\* call _make_request again.
AttemptRetry(t) ==
    \E o \in Outcomes, pf \in Preflights(t) :
        /\ Sent(t, pf, o, FALSE)
        /\ Failed(o)
        /\ should_retry(tasks[t].retry_count)
        /\ cors_preflight_cache' = pf.cache
        /\ tasks' = [tasks EXCEPT ![t] =
                        [@ EXCEPT !.pc = "backoff",
                                  !.wake = now' + backoff(tasks[t].retry_count),
                                  !.sleeps = Append(@, backoff(tasks[t].retry_count)),
                                  !.sends = SendsAfter(t, pf),
                                  !.optAt = IF pf.issued THEN now ELSE @,
                                  !.key = request_headers.idem]]
        /\ running' = None
        /\ fetchLast' = NoFetch
        /\ PipelineCredential(o)
        /\ UNCHANGED <<cacheConf, orderVars, directions_cache, dcWritten, confVars,
                       session_headers, pending_invalidate>>

\* asyncio.sleep(retry_delay) is over: _make_request(..., retry_count + 1).
BackoffWake(t) ==
    /\ tasks[t].pc = "backoff"
    /\ running = None
    /\ Elapsed(tasks[t].wake)
    /\ tasks' = [tasks EXCEPT ![t] =
                    apply_rate_limit([@ EXCEPT !.retry_count = @ + 1], now)]
    /\ running' = HoldsLoop(t)
    /\ Obs(NoOp, NoReq)
    /\ UNCHANGED <<now, cacheConf, orderVars, directions_cache, dcWritten, confVars,
                   authVars, storeVars, cors_preflight_cache, lastDispatch>>

\* _handle_retry, retries used up: _make_request returns None, and the
\* operation that called it returns its failure value.
AttemptExhausted(t) ==
    \E o \in Outcomes, pf \in Preflights(t) :
        /\ Sent(t, pf, o, TRUE)
        /\ Failed(o)
        /\ ~should_retry(tasks[t].retry_count)
        /\ cors_preflight_cache' = pf.cache
        /\ Returns(t)
        /\ fetchLast' = transport_failed(tasks[t].op)
        /\ PipelineCredential(o)
        /\ UNCHANGED <<cacheConf, orderVars, directions_cache, dcWritten, confVars,
                       session_headers, pending_invalidate>>

\* The response is below 400: _make_request returns it to its caller.
AttemptOkReturn(t) ==
    \E o \in Outcomes, pf \in Preflights(t) :
        /\ Sent(t, pf, o, TRUE)
        /\ ~Failed(o)
        /\ tasks[t].op = "_make_request"
        /\ cors_preflight_cache' = pf.cache
        /\ Returns(t)
        /\ fetchLast' = NoFetch
        /\ PipelineCredential(o)
        /\ UNCHANGED <<cacheConf, orderVars, directions_cache, dcWritten, confVars,
                       session_headers, pending_invalidate>>

\* One caller of _make_request; every retry budget and base delay, with and
\* without a rate limit.
InitReq ==
    /\ now = 0
    /\ max_size = MaxCap
    /\ ttl_seconds = MaxTtl
    /\ directions_cache = <<>>
    /\ dcLast = NoOp
    /\ OrderAtRest
    /\ dcWritten = [k \in Keys |-> NoWrite]
    /\ request_delay \in RequestDelays
    /\ max_retries \in 0..MaxRetries
    /\ retry_delay \in RetryDelays
    /\ callers = {"a"}
    /\ horizon = MaxTime
    /\ saturates = FALSE
    /\ stored_token = NoToken
    /\ ServiceAtRest

\* Concurrent callers of _make_request on a rate-limited service.
InitConc ==
    /\ now = 0
    /\ max_size = MaxCap
    /\ ttl_seconds = MaxTtl
    /\ directions_cache = <<>>
    /\ dcLast = NoOp
    /\ OrderAtRest
    /\ dcWritten = [k \in Keys |-> NoWrite]
    /\ request_delay \in RequestDelays \ {0}
    /\ max_retries \in {0, 1}
    /\ retry_delay = 1
    /\ callers = Tasks
    /\ horizon = MaxTime
    /\ saturates = FALSE
    /\ stored_token = NoToken
    /\ ServiceAtRest

NextReq ==
    \/ \E t \in Tasks, url \in Urls :
          \/ MakeRequest(t, "GET", url)
          \/ MakeRequest(t, "POST", url)
    \/ \E t \in Tasks :
          \/ AttemptRetry(t)
          \/ BackoffWake(t)
          \/ AttemptExhausted(t)
          \/ AttemptOkReturn(t)
    \/ Tick

SpecReq == InitReq /\ [][NextReq]_vars

SpecConc == InitConc /\ [][NextReq]_vars

\* The caller of InitReq on a clock whose last value stands for all later
\* times: no sleep waits for a time the clock cannot show.
InitLive ==
    /\ now = 0
    /\ max_size = MaxCap
    /\ ttl_seconds = MaxTtl
    /\ directions_cache = <<>>
    /\ dcLast = NoOp
    /\ OrderAtRest
    /\ dcWritten = [k \in Keys |-> NoWrite]
    /\ request_delay \in RequestDelays
    /\ max_retries \in 0..MaxRetries
    /\ retry_delay \in RetryDelays
    /\ callers = {"a"}
    /\ horizon = MaxTime
    /\ saturates = TRUE
    /\ stored_token = NoToken
    /\ ServiceAtRest

\* Time passes; the event loop resumes a task whose sleep is over; a request
\* that was sent ends, in a response or in an exception.
FairReq ==
    /\ WF_vars(Tick)
    /\ \A t \in Tasks :
          /\ WF_vars(BackoffWake(t))
          /\ WF_vars(AttemptRetry(t) \/ AttemptExhausted(t) \/ AttemptOkReturn(t))

SpecLive == InitLive /\ [][NextReq]_vars /\ FairReq

\* ------------------------------------------------ service operations
\* The directions operations look the picklist up before they test
\* is_authenticated: an expired entry is deleted by the lookup.
unauthenticated_reads_cache(cache, k, current_time) ==
    DirectionsCache_get(cache, k, current_time).cache

\* The directions cache when a directions operation returns from its
\* "if not self.is_authenticated" branch: the branch comes first.
unauthenticated_cache(cache, k, current_time) == cache

\* if not self.is_authenticated: return [] (or None)
DirectionsUnauthenticated(t, k) ==
    /\ t \in callers
    /\ tasks[t].pc = "idle"
    /\ running = None
    /\ ~is_authenticated
    /\ directions_cache' = unauthenticated_cache(directions_cache, k, now)
    /\ dcLast' = NoOp
    /\ reqLast' = NoReq
    /\ mergeLast' = NoMerge
    /\ fetchLast' = fetch_failed(Directions, "unauthenticated")
    /\ UNCHANGED <<now, cacheConf, orderVars, dcWritten, svcVars>>

\* The last fetch of k was stored at most ttl_seconds ago and has not been
\* invalidated, cleared or evicted since.
Fresh(k) ==
    /\ dcWritten[k] # NoWrite
    /\ now - dcWritten[k].at <= ttl_seconds

\* cached_data = self.directions_cache.get(picklist_id); if cached_data:
\* return it (parsed, or raw).
DirectionsCacheHit(t, k) ==
    LET r == DirectionsCache_get(directions_cache, k, now)
    IN  /\ t \in callers
        /\ tasks[t].pc = "idle"
        /\ running = None
        /\ is_authenticated
        /\ Truthy(r.ret)
        /\ directions_cache' = r.cache
        /\ dcLast' = NoOp
        /\ reqLast' = NoReq
        /\ mergeLast' = NoMerge
        /\ fetchLast' = directions_fetched("hit", r.ret)
        /\ UNCHANGED <<now, cacheConf, orderVars, dcWritten, svcVars>>

\* A miss waits for the call of another task that is fetching the same
\* picklist.
awaits_in_flight_same_key(ts, t, k) ==
    \E u \in Tasks \ {t} :
        ts[u].op = Directions /\ ts[u].url = k /\ ts[u].pc # "idle"

\* get_session_directions keeps no record of the requests in flight: between
\* the cache lookup and _make_request nothing looks at the other calls.
awaits_in_flight(ts, t, k) == FALSE

\* The cache gave nothing that counts as data: _make_request("POST", api_url).
DirectionsFetch(t, k) ==
    LET r == DirectionsCache_get(directions_cache, k, now)
    IN  /\ t \in callers
        /\ tasks[t].pc = "idle"
        /\ running = None
        /\ is_authenticated
        /\ ~Truthy(r.ret)
        /\ ~awaits_in_flight(tasks, t, k)
        /\ directions_cache' = r.cache
        /\ tasks' = [tasks EXCEPT ![t] =
                        NewRequest([IdleTask EXCEPT !.op = Directions,
                                                    !.fresh = Fresh(k)],
                                   "POST", k, now)]
        /\ running' = HoldsLoop(t)
        /\ Obs(NoOp, NoReq)
        /\ UNCHANGED <<now, cacheConf, orderVars, dcWritten, confVars, authVars,
                       storeVars, cors_preflight_cache, lastDispatch>>

\* The body is stored as it came, decoded or not.
json_decodes_always(body) == TRUE

\* data = response.json() returns; it raises JSONDecodeError on a body that
\* is not JSON, and the except branch returns without the cache set.
json_decodes(body) == body # NotJson

\* The data of the entry for k that directions_cache.set(k, body) replaces.
Replaced(cache, k, body) ==
    IF body # NotJson /\ k \in CacheKeys(cache)
    THEN CacheEntry(cache, k).data
    ELSE None

\* The directions api answered below 400: response.json(), then
\* directions_cache.set(picklist_id, data).  A body that is not JSON is
\* not cached.
AttemptOkDirections(t) ==
    \E o \in Outcomes, pf \in Preflights(t), body \in Bodies :
        /\ Sent(t, pf, o, TRUE)
        /\ ~Failed(o)
        /\ tasks[t].op = Directions
        /\ cors_preflight_cache' = pf.cache
        /\ IF ~json_decodes(body)
           THEN UNCHANGED <<directions_cache, dcWritten>>
           ELSE LET k == tasks[t].url
                    post == DirectionsCache_set(directions_cache, k, body, now')
                IN  /\ directions_cache' = post
                    /\ dcWritten' =
                          [Forget(dcWritten, directions_cache, post)
                              EXCEPT ![k] = [data |-> body, at |-> now']]
        /\ Returns(t)
        /\ fetchLast' =
              [directions_fetched("payload", body)
                  EXCEPT !.replaced =
                      Replaced(directions_cache, tasks[t].url, body)]
        /\ PipelineCredential(o)
        /\ UNCHANGED <<cacheConf, orderVars, confVars, session_headers,
                       pending_invalidate>>

\* get_sessions_by_sale_id and get_all_sessions:
\* if not self.is_authenticated: return []
SessionsUnauthenticated(t, op) ==
    /\ t \in callers
    /\ tasks[t].pc = "idle"
    /\ running = None
    /\ ~is_authenticated
    /\ dcLast' = NoOp
    /\ reqLast' = NoReq
    /\ mergeLast' = NoMerge
    /\ fetchLast' = fetch_failed(op, "unauthenticated")
    /\ UNCHANGED <<now, cacheConf, orderVars, directions_cache, dcWritten,
                   svcVars>>

\* get_latest_session_order_state:
\* if not self.is_authenticated: return None
LatestStateUnauthenticated(t) ==
    /\ t \in callers
    /\ tasks[t].pc = "idle"
    /\ running = None
    /\ ~is_authenticated
    /\ dcLast' = NoOp
    /\ reqLast' = NoReq
    /\ mergeLast' = NoMerge
    /\ fetchLast' = fetch_failed(LatestState, "unauthenticated")
    /\ UNCHANGED <<now, cacheConf, orderVars, directions_cache, dcWritten,
                   svcVars>>

\* get_all_sessions(states=...) with a name that is no session state:
\* get_session_states_by_names raises ValueError, the operation returns [].
AllSessionsBadStates(t) ==
    /\ t \in callers
    /\ tasks[t].pc = "idle"
    /\ running = None
    /\ is_authenticated
    /\ dcLast' = NoOp
    /\ reqLast' = NoReq
    /\ mergeLast' = NoMerge
    /\ fetchLast' = fetch_failed(AllSessions, "bad_states")
    /\ UNCHANGED <<now, cacheConf, orderVars, directions_cache, dcWritten,
                   svcVars>>

\* response = await self._make_request("POST", api_url, ...)
SessionsFetch(t, op) ==
    /\ t \in callers
    /\ tasks[t].pc = "idle"
    /\ running = None
    /\ is_authenticated
    /\ tasks' = [tasks EXCEPT ![t] =
                    NewRequest([IdleTask EXCEPT !.op = op],
                               "POST", SessionsUrl, now)]
    /\ running' = HoldsLoop(t)
    /\ Obs(NoOp, NoReq)
    /\ UNCHANGED <<now, cacheConf, orderVars, directions_cache, dcWritten,
                   confVars, authVars, storeVars, cors_preflight_cache,
                   lastDispatch>>

\* The sessions api answered below 400: response.json(), then the parse
\* function of the operation.
AttemptOkSessions(t) ==
    \E o \in Outcomes, pf \in Preflights(t), body \in SessionBodies :
        /\ Sent(t, pf, o, TRUE)
        /\ ~Failed(o)
        /\ tasks[t].op \in SessionOps
        /\ cors_preflight_cache' = pf.cache
        /\ Returns(t)
        /\ fetchLast' = sessions_fetched(tasks[t].op, body)
        /\ PipelineCredential(o)
        /\ UNCHANGED <<cacheConf, orderVars, directions_cache, dcWritten,
                       confVars, session_headers, pending_invalidate>>

\* login(): await self.check_cached_token() -> await token_cache.get_token.
LoginStart(t) ==
    /\ t \in callers
    /\ tasks[t].pc = "idle"
    /\ running = None
    /\ tasks' = [tasks EXCEPT ![t] =
                    [IdleTask EXCEPT !.op = "login", !.pc = "token_get",
                                     !.afterLogout = stored_before_logout]]
    /\ Obs(NoOp, NoReq)
    /\ UNCHANGED <<now, cacheConf, orderVars, directions_cache, dcWritten, confVars,
                   authVars, storeVars, cors_preflight_cache, running,
                   lastDispatch>>

\* TokenCacheService.get_token("skuvault_web")
TokenCache_get_token(store) == store

\* A stored token is used whether or not it has expired.
TokenUsable_ignores_expiry(cached_token) == cached_token.token # None

\* cached_token and not cached_token.is_expired
TokenUsable(cached_token) ==
    cached_token.token # None /\ ~cached_token.expired

\* check_cached_token adopts the stored token: auth_token, is_authenticated,
\* _set_api_headers(); login returns True.
LoginAdoptToken(t) ==
    LET cached_token == TokenCache_get_token(stored_token)
    IN  /\ tasks[t].pc = "token_get"
        /\ running = None
        /\ TokenUsable(cached_token)
        /\ session_headers.idem < MaxHeaderSets
        /\ auth_token' = cached_token.token
        /\ is_authenticated' = TRUE
        /\ session_headers' = set_api_headers(cached_token.token, session_headers)
        /\ cors_preflight_cache' = set_api_headers_cache(cors_preflight_cache)
        /\ Returns(t)
        /\ Obs(NoOp, NoReq)
        /\ UNCHANGED <<now, cacheConf, orderVars, directions_cache, dcWritten, confVars,
                       storeVars, lastDispatch>>

\* check_cached_token returns False (no usable token, or get_token raised):
\* login goes on to _make_request("GET", login_url).
LoginNoToken(t, raised) ==
    /\ tasks[t].pc = "token_get"
    /\ running = None
    /\ raised \/ ~TokenUsable(TokenCache_get_token(stored_token))
    /\ tasks' = [tasks EXCEPT ![t] =
                    NewRequest([@ EXCEPT !.afterLogout = FALSE],
                               "GET", LoginUrl, now)]
    /\ running' = HoldsLoop(t)
    /\ Obs(NoOp, NoReq)
    /\ UNCHANGED <<now, cacheConf, orderVars, directions_cache, dcWritten, confVars,
                   authVars, storeVars, cors_preflight_cache, lastDispatch>>

\* The login page came back: with a form, submit it with
\* _make_request("POST", login_url); without one, login returns False.
AttemptOkLoginPage(t) ==
    \E o \in Outcomes, pf \in Preflights(t), form \in BOOLEAN :
        /\ Sent(t, pf, o, TRUE)
        /\ ~Failed(o)
        /\ tasks[t].op = "login" /\ tasks[t].method = "GET"
        /\ cors_preflight_cache' = pf.cache
        /\ fetchLast' = NoFetch
        /\ IF form
           THEN /\ tasks' = [tasks EXCEPT ![t] =
                               NewRequest(@, "POST", LoginUrl, now')]
                /\ running' = HoldsLoop(t)
           ELSE Returns(t)
        /\ UNCHANGED <<cacheConf, orderVars, directions_cache, dcWritten, confVars,
                       authVars, storeVars>>

\* TokenCacheService.store_token(token, "skuvault_web", 24 hours)
TokenCache_store_token(token) == [token |-> token, expired |-> FALSE]

\* The login form was answered.  jar is the sv-t cookie the session holds
\* after the response: what the server set, if it set one, else what the jar
\* held, else nothing.  _is_login_successful, then _extract_auth_token: a
\* long enough sv-t cookie becomes auth_token and _set_api_headers() runs.
\* With an auth_token the login awaits _store_token_in_cache before it
\* returns.
AttemptOkLoginSubmit(t) ==
    \E o \in Outcomes, pf \in Preflights(t), success \in BOOLEAN,
       jar \in Tokens \cup {None} :
        LET extracted == success /\ jar \in Tokens
            token == IF extracted THEN jar ELSE auth_token
        IN  /\ Sent(t, pf, o, TRUE)
            /\ ~Failed(o)
            /\ tasks[t].op = "login" /\ tasks[t].method = "POST"
            /\ extracted => session_headers.idem < MaxHeaderSets
            /\ is_authenticated' = (success \/ is_authenticated)
            /\ auth_token' = token
            /\ fetchLast' = NoFetch
            /\ session_headers' = IF extracted
                                  THEN set_api_headers(jar, session_headers)
                                  ELSE session_headers
            /\ cors_preflight_cache' = IF extracted
                                       THEN set_api_headers_cache(pf.cache)
                                       ELSE pf.cache
            /\ IF success /\ token # None
               THEN /\ tasks' = [tasks EXCEPT ![t] =
                                   [@ EXCEPT !.pc = "store", !.tok = token,
                                             !.sends = SendsAfter(t, pf)]]
                    /\ running' = None
               ELSE Returns(t)
            /\ UNCHANGED <<cacheConf, orderVars, directions_cache, dcWritten, confVars,
                           storeVars>>

\* await self.token_cache.store_token(...) is over (it may have failed);
\* login returns True.
LoginTokenStored(t) ==
    /\ tasks[t].pc = "store"
    /\ running = None
    /\ \E stored \in BOOLEAN :
          /\ stored_token' = IF stored
                             THEN TokenCache_store_token(tasks[t].tok)
                             ELSE stored_token
          /\ stored_before_logout' = (~stored /\ stored_before_logout)
    /\ Returns(t)
    /\ Obs(NoOp, NoReq)
    /\ UNCHANGED <<now, cacheConf, orderVars, directions_cache, dcWritten, confVars,
                   authVars, pending_invalidate, cors_preflight_cache,
                   lastDispatch>>

\* logout(): is_authenticated and auth_token reset, and
\* _invalidate_cached_token scheduled with asyncio.create_task.  (The
\* cleared cookies are the case jar = None of the next login.)
Logout ==
    /\ running = None
    /\ pending_invalidate < MaxPending
    /\ is_authenticated' = FALSE
    /\ auth_token' = None
    /\ pending_invalidate' = pending_invalidate + 1
    /\ stored_before_logout' = (stored_token.token # None)
    /\ Obs(NoOp, NoReq)
    /\ UNCHANGED <<now, cacheConf, orderVars, directions_cache, dcWritten, confVars,
                   session_headers, stored_token, reqVars>>

\* TokenCacheService.invalidate_token("skuvault_web")
TokenCache_invalidate_token(store) == NoToken

\* The background task _invalidate_cached_token runs.
InvalidateCachedToken ==
    /\ running = None
    /\ pending_invalidate > 0
    /\ pending_invalidate' = pending_invalidate - 1
    /\ stored_token' = TokenCache_invalidate_token(stored_token)
    /\ stored_before_logout' = FALSE
    /\ Obs(NoOp, NoReq)
    /\ UNCHANGED <<now, cacheConf, orderVars, directions_cache, dcWritten, confVars,
                   authVars, reqVars>>

\* invalidate_directions_cache(picklist_id)
InvalidateDirectionsCache(k) ==
    /\ running = None
    /\ directions_cache' = DirectionsCache_invalidate(directions_cache, k)
    /\ dcWritten' = [dcWritten EXCEPT ![k] = NoWrite]
    /\ Obs(NoOp, NoReq)
    /\ UNCHANGED <<now, cacheConf, orderVars, svcVars>>

\* invalidate_directions_cache(None)
ClearDirectionsCache ==
    /\ running = None
    /\ directions_cache' = DirectionsCache_clear(directions_cache)
    /\ dcWritten' = [k \in Keys |-> NoWrite]
    /\ Obs(NoOp, NoReq)
    /\ UNCHANGED <<now, cacheConf, orderVars, svcVars>>

\* What TokenCacheService may hold for "skuvault_web" when the service is
\* constructed: nothing, or a token of an earlier process, expired or not.
StoredAtStart ==
    {NoToken} \cup {[token |-> "T1", expired |-> e] : e \in BOOLEAN}

\* One caller of the service operations, with and without a rate limit; the
\* directions cache expires its entries within the horizon.
Init ==
    /\ now = 0
    /\ max_size = MaxCap
    /\ ttl_seconds = 1
    /\ directions_cache = <<>>
    /\ dcLast = NoOp
    /\ OrderAtRest
    /\ dcWritten = [k \in Keys |-> NoWrite]
    /\ request_delay \in RequestDelays
    /\ max_retries = 1
    /\ retry_delay = 1
    /\ callers = {"a"}
    /\ horizon = MaxServiceTime
    /\ saturates = FALSE
    /\ stored_token \in StoredAtStart
    /\ ServiceAtRest

Next ==
    \/ \E t \in Tasks, k \in CallKeys :
          \/ DirectionsUnauthenticated(t, k)
          \/ DirectionsCacheHit(t, k)
          \/ DirectionsFetch(t, k)
    \/ \E t \in Tasks :
          \/ \E op \in SessionOps : SessionsUnauthenticated(t, op)
          \/ LatestStateUnauthenticated(t)
          \/ AttemptRetry(t)
          \/ BackoffWake(t)
          \/ AttemptExhausted(t)
          \/ AttemptOkDirections(t)
          \/ LoginStart(t)
          \/ LoginAdoptToken(t)
          \/ \E raised \in BOOLEAN : LoginNoToken(t, raised)
          \/ AttemptOkLoginPage(t)
          \/ AttemptOkLoginSubmit(t)
          \/ LoginTokenStored(t)
    \/ Logout
    \/ InvalidateCachedToken
    \/ \E k \in CallKeys : InvalidateDirectionsCache(k)
    \/ ClearDirectionsCache
    \/ Tick

Spec == Init /\ [][Next]_vars

\* ------------------------------------------------ SessionOrder.merge
\* Records that bring order items only, and records that bring field values
\* only; None may be passed for either.
ItemSources ==
    {SessionOrder(None, NoUserId, "none", items, NoDate) :
        items \in SeqsUpTo(OrderItems, MaxSourceItems)} \cup {NoneOrder}

FieldSources ==
    {SessionOrder(number, uid, r, <<>>, NoDate) :
        number \in OrderNumbers, uid \in UserIds, r \in RestProfiles}
    \cup {NoneOrder}

\* Incoming records for the same order as the canonical record, for another
\* one, or with none of the six fields set; with and without enrichment.
IdentitySources ==
    {WithIdentity(SessionOrder(number, 7, r, <<>>, NoDate), ident) :
        number \in {None, "ORD-2"}, r \in {"none", "v2"},
        ident \in Identities}

SourcesOf(kind) ==
    IF kind = "items" THEN ItemSources
    ELSE IF kind = "fields" THEN FieldSources
    ELSE IF kind = "identity" THEN IdentitySources ELSE {}

\* The canonical record before the first merge: a new one or an enriched
\* one, with no items, with items of distinct keys, or with two items of
\* one key.
InitOrders ==
    {SessionOrder(p[1], p[2], p[3], items, NoDate) :
        p \in {<<None, NoUserId, "none">>, <<"ORD-1", 7, "v1">>},
        items \in {<<>>,
                   <<[sku |-> "A", location |-> "L1", quantity |-> 1],
                     [sku |-> "A", location |-> "L2", quantity |-> 1]>>,
                   <<[sku |-> "A", location |-> "L1", quantity |-> 1],
                     [sku |-> "A", location |-> "L1", quantity |-> 2]>>}}

InitMerge ==
    /\ now = 0
    /\ max_size = MaxCap
    /\ ttl_seconds = MaxTtl
    /\ directions_cache = <<>>
    /\ dcLast = NoOp
    /\ dcWritten = [k \in Keys |-> NoWrite]
    /\ request_delay = 1
    /\ max_retries = 0
    /\ retry_delay = 1
    /\ callers = {}
    /\ horizon = MaxTime
    /\ saturates = FALSE
    /\ stored_token = NoToken
    /\ ServiceAtRest
    /\ canonical \in {WithIdentity(order, ident) :
                         order \in InitOrders,
                         ident \in {i \in Identities : i.sale_id = "SALE1"}}
    /\ sources \in {"items", "fields", "identity"}
    /\ mergeLast = NoMerge

\* canonical.merge(source)
Merge(source) ==
    LET r == SessionOrder_merge(canonical, source, now)
    IN  /\ canonical' = r.self
        /\ mergeLast' = [op |-> "merge", source |-> source, ret |-> r.ret]
        /\ dcLast' = NoOp
        /\ reqLast' = NoReq
        /\ fetchLast' = NoFetch
        /\ UNCHANGED <<now, cacheConf, sources, directions_cache, dcWritten,
                       svcVars>>

NextMerge ==
    \/ \E source \in SourcesOf(sources) : Merge(source)
    \/ Tick

SpecMerge == InitMerge /\ [][NextMerge]_vars

\* ------------------------------------------------ fetch operations
\* One caller of the four fetch operations, on a service that has not logged
\* in, or that has logged in with token T1 and stored it.
InitFetch ==
    /\ now = 0
    /\ max_size = MaxCap
    /\ ttl_seconds = 1
    /\ directions_cache = <<>>
    /\ dcLast = NoOp
    /\ OrderAtRest
    /\ dcWritten = [k \in Keys |-> NoWrite]
    /\ request_delay = 0
    /\ max_retries = 1
    /\ retry_delay = 1
    /\ callers = {"a"}
    /\ horizon = MaxTime
    /\ saturates = FALSE
    /\ is_authenticated \in BOOLEAN
    /\ auth_token = IF is_authenticated THEN "T1" ELSE None
    /\ session_headers = IF is_authenticated
                         THEN set_api_headers("T1", NoHeaders)
                         ELSE NoHeaders
    /\ stored_token = IF is_authenticated
                      THEN [token |-> "T1", expired |-> FALSE]
                      ELSE NoToken
    /\ pending_invalidate = 0
    /\ stored_before_logout = FALSE
    /\ cors_preflight_cache = {}
    /\ tasks = [t \in Tasks |-> IdleTask]
    /\ running = None
    /\ lastDispatch = -1
    /\ reqLast = NoReq
    /\ fetchLast = NoFetch

NextFetch ==
    \/ \E t \in Tasks, op \in SessionOps :
          \/ SessionsUnauthenticated(t, op)
          \/ SessionsFetch(t, op)
    \/ \E t \in Tasks, k \in CallKeys :
          \/ DirectionsUnauthenticated(t, k)
          \/ DirectionsCacheHit(t, k)
          \/ DirectionsFetch(t, k)
    \/ \E t \in Tasks :
          \/ LatestStateUnauthenticated(t)
          \/ AllSessionsBadStates(t)
          \/ AttemptRetry(t)
          \/ BackoffWake(t)
          \/ AttemptExhausted(t)
          \/ AttemptOkSessions(t)
          \/ AttemptOkDirections(t)
    \/ Tick

SpecFetch == InitFetch /\ [][NextFetch]_vars

\* Two callers of get_session_directions on a signed-in, rate-limited
\* service: asyncio.sleep in _apply_rate_limit and in _handle_retry is where
\* one call runs while the other is suspended.
InitDirections ==
    /\ now = 0
    /\ max_size = MaxCap
    /\ ttl_seconds = MaxTtl
    /\ directions_cache = <<>>
    /\ dcLast = NoOp
    /\ OrderAtRest
    /\ dcWritten = [k \in Keys |-> NoWrite]
    /\ request_delay = 1
    /\ max_retries \in {0, 1}
    /\ retry_delay = 1
    /\ callers = Tasks
    /\ horizon = MaxTime
    /\ saturates = FALSE
    /\ is_authenticated = TRUE
    /\ auth_token = "T1"
    /\ session_headers = set_api_headers("T1", NoHeaders)
    /\ stored_token = [token |-> "T1", expired |-> FALSE]
    /\ pending_invalidate = 0
    /\ stored_before_logout = FALSE
    /\ cors_preflight_cache = {}
    /\ tasks = [t \in Tasks |-> IdleTask]
    /\ running = None
    /\ lastDispatch = -1
    /\ reqLast = NoReq
    /\ fetchLast = NoFetch

NextDirections ==
    \/ \E t \in Tasks, k \in CallKeys :
          \/ DirectionsCacheHit(t, k)
          \/ DirectionsFetch(t, k)
    \/ \E t \in Tasks :
          \/ AttemptRetry(t)
          \/ BackoffWake(t)
          \/ AttemptExhausted(t)
          \/ AttemptOkDirections(t)
    \/ Tick

SpecDirections == InitDirections /\ [][NextDirections]_vars

\* ================================================================ claims

\* C1 (as stated): for every configured capacity, in every reachable state
\* the number of stored entries is at most max_size.
C1_SizeAtMostMaxSize == Len(directions_cache) <= max_size

\* C2: whenever set removes an entry to make room, the removed entry has the
\* least timestamp of all entries present just before the set.
C2_EvictedIsOldest ==
    [][dcLast'.op = "set" =>
          \A i \in DOMAIN directions_cache :
              directions_cache[i].key \in dcLast'.evicted =>
                  \A j \in DOMAIN directions_cache :
                      directions_cache[i].timestamp
                          <= directions_cache[j].timestamp]_vars

\* A set evicted a key while an entry older than the new one stays behind:
\* the cache held entries of different ages to choose from.
C2_Witness ==
    /\ dcLast.op = "set"
    /\ dcLast.evicted # {}
    /\ \E i \in DOMAIN directions_cache :
          /\ directions_cache[i].key # dcLast.key
          /\ directions_cache[i].timestamp < now
          /\ directions_cache[i].timestamp > 0

\* C3: if set(k, v) was the last write to k and k was not invalidated,
\* cleared or evicted since, get(k) returns v while now - (time of the set)
\* <= ttl; beyond the ttl it returns absent and k is gone from the cache, so
\* get_stats no longer counts it.
C3_GetAfterSet ==
    (dcLast.op = "get" /\ dcWritten[dcLast.key] # NoWrite) =>
        LET w == dcWritten[dcLast.key]
        IN  IF now - w.at <= ttl_seconds
            THEN dcLast.ret = w.data
            ELSE /\ dcLast.ret = None
                 /\ dcLast.key \notin CacheKeys(directions_cache)
                 /\ DirectionsCache_get_stats(directions_cache, now).total_items
                       = Cardinality(CacheKeys(directions_cache) \ {dcLast.key})

\* A get of a key written earlier, asked for after its ttl lapsed, while
\* another entry is still stored.
C3_Witness ==
    /\ dcLast.op = "get"
    /\ dcWritten[dcLast.key] # NoWrite
    /\ now - dcWritten[dcLast.key].at > ttl_seconds
    /\ dcLast.ret = None
    /\ directions_cache # <<>>

\* C4 (as stated): a directions call for a picklist id whose payload was
\* fetched and cached at most ttl_seconds ago, and not invalidated, cleared
\* or evicted since, is served from the cache and issues no network
\* request: no such call is ever inside _make_request.
C4_SecondCallServedFromCache ==
    \A t \in Tasks : tasks[t].op = Directions => ~tasks[t].fresh

\* C5: in one _make_request call every retry is preceded by one backoff
\* sleep, the first of retry_delay and each later one twice the one before
\* (retry_delay * 2^i for the i-th retry), and an attempt answered below 400
\* within the first max_retries + 1 attempts ends the call with that
\* response.
C5_BackoffDoubles ==
    /\ \A t \in Tasks :
          /\ \A i \in DOMAIN tasks[t].sleeps :
                tasks[t].sleeps[i] = IF i = 1 THEN retry_delay
                                     ELSE 2 * tasks[t].sleeps[i - 1]
          /\ tasks[t].pc = "backoff" =>
                Len(tasks[t].sleeps) = tasks[t].retry_count + 1
    /\ reqLast.attempt =>
          /\ Len(reqLast.sleeps) = reqLast.sends - 1
          /\ \A i \in DOMAIN reqLast.sleeps :
                reqLast.sleeps[i] = IF i = 1 THEN retry_delay
                                    ELSE 2 * reqLast.sleeps[i - 1]
          /\ reqLast.ok =>
                /\ reqLast.returned
                /\ reqLast.resp # NoResponse
                /\ reqLast.sends <= max_retries + 1

\* Responses failing twice and then 200 with max_retries = 2: the 200 is
\* returned after sleeps of retry_delay and 2 * retry_delay.
C5_Witness ==
    /\ max_retries = 2
    /\ reqLast.returned
    /\ reqLast.resp = 200
    /\ reqLast.sends = 3
    /\ reqLast.sleeps = <<retry_delay, 2 * retry_delay>>

\* C6: a _make_request call never sends more than max_retries + 1 primary
\* requests, a failing attempt that is the (max_retries + 1)-th ends the
\* call, and a call that ends in None has made exactly max_retries + 1
\* sends and max_retries backoff sleeps; and whatever the outcomes of its
\* attempts, a call that was started ends.
C6_ExhaustionAfterMaxRetries ==
    /\ [](/\ \A t \in Tasks : tasks[t].sends <= max_retries + 1
          /\ reqLast.attempt =>
                /\ reqLast.sends <= max_retries + 1
                /\ (~reqLast.ok /\ reqLast.sends = max_retries + 1)
                      => reqLast.returned
                /\ (reqLast.returned /\ reqLast.resp = NoResponse) =>
                      /\ ~reqLast.ok
                      /\ reqLast.sends = max_retries + 1
                      /\ Len(reqLast.sleeps) = max_retries)
    /\ \A t \in Tasks : (tasks[t].pc # "idle") ~> (tasks[t].pc = "idle")

\* All attempts fail with max_retries = 2: None after three sends.
C6_Witness ==
    /\ max_retries = 2
    /\ reqLast.returned
    /\ reqLast.resp = NoResponse
    /\ reqLast.sends = 3
    /\ Len(reqLast.sleeps) = 2

\* C7: a response returned by _make_request has status below 400; an
\* attempt that ends in an exception or a status >= 400 returns no response;
\* an attempt answered below 400 ends the call at once with that response.
C7_ReturnedBelow400 ==
    reqLast.attempt =>
        /\ reqLast.resp # NoResponse => reqLast.returned /\ reqLast.resp < 400
        /\ ~reqLast.ok => reqLast.resp = NoResponse
        /\ reqLast.ok => reqLast.returned /\ reqLast.resp # NoResponse

\* A response is returned by the retry of a failed attempt.
C7_Witness ==
    /\ reqLast.returned
    /\ reqLast.resp # NoResponse
    /\ reqLast.sends = 2
    /\ max_retries = 1

\* C8 (as stated): any two consecutive outbound requests of the service,
\* preflight requests included and whichever tasks send them, are
\* dispatched at least request_delay apart.
C8_DispatchesSpaced == \A g \in reqLast.gaps : g >= request_delay

\* C9 (as stated): every step that changes the credential (auth_token, or the
\* Authorization header built from it) leaves the CORS preflight cache
\* empty.
C9_PreflightCacheClearedOnCredentialChange ==
    [][(\/ auth_token' # auth_token
        \/ session_headers'.Authorization # session_headers.Authorization)
          => cors_preflight_cache' = {}]_vars

\* C10: when _handle_cors_preflight answers from its cache, the entry it
\* uses was stored under the Authorization value of the current request.
C10_PreflightHitSameToken ==
    reqLast.pfHit => reqLast.pfAuth = reqLast.reqAuth

\* A preflight is answered from the cache after the credential has been
\* replaced at least once.
C10_Witness ==
    /\ reqLast.pfHit
    /\ reqLast.reqAuth \in Tokens
    /\ session_headers.idem >= 2

\* C11: in every attempt of a POST to the cross-origin host the primary
\* request is sent, whatever the preflight returned (a cached failure, an
\* OPTIONS answer other than 200, or an exception); an attempt whose
\* preflight failed and whose primary request was answered below 400 ends
\* the call with that response, with no retry and no terminal failure.
C11_PrimarySentAfterPreflight ==
    reqLast.attempt =>
        /\ reqLast.primary
        /\ (~reqLast.pfOk /\ reqLast.ok) =>
              /\ reqLast.returned
              /\ reqLast.resp # NoResponse

\* The first attempt of a call found a failed preflight in the cache, sent
\* the primary request and returned its response.
C11_Witness ==
    /\ reqLast.attempt
    /\ reqLast.pfHit
    /\ ~reqLast.pfOk
    /\ reqLast.primary
    /\ reqLast.sends = 1
    /\ reqLast.returned
    /\ reqLast.resp = 200

\* C12 (as stated): within one _make_request call, an attempt issues an
\* OPTIONS request after an earlier attempt of the same call issued one only
\* if that earlier request is at least the preflight TTL old.
C12_OnePreflightPerTtlWindow ==
    (reqLast.attempt /\ reqLast.pfIssued /\ reqLast.pfPrev >= 0) =>
        reqLast.at - reqLast.pfPrev >= PreflightTtl

\* C13 (as stated): the idempotency-key a primary request to the API host
\* carries is not the one the primary request of the attempt before it
\* carried: every send has a key of its own.
C13_FreshIdempotencyKey ==
    (reqLast.attempt /\ reqLast.url \in CallKeys /\ reqLast.key # 0) =>
        reqLast.key # reqLast.prevKey

\* C14: an attempt of the request pipeline that fails (an error status or
\* an exception, retried or ending in None), and every attempt of a
\* directions request, leaves the stored token, auth_token and
\* is_authenticated as they were.
C14_PipelineKeepsCredential ==
    [][(reqLast'.attempt /\ (~reqLast'.ok \/ reqLast'.url \in CallKeys))
          => UNCHANGED <<stored_token, auth_token, is_authenticated>>]_vars

\* A request of an authenticated service with a stored token ran out of
\* retries.
C14_Witness ==
    /\ reqLast.attempt
    /\ reqLast.returned
    /\ ~reqLast.ok
    /\ reqLast.sends = max_retries + 1
    /\ is_authenticated
    /\ auth_token \in Tokens
    /\ stored_token.token \in Tokens

\* C15: a merge of a record leaves every canonical item in its position
\* with its key, and unchanged if its key is not among the incoming keys;
\* for every incoming key, the first canonical item of that key holds the
\* (last) incoming item of that key afterwards, and if there was none, that
\* incoming item stands once behind the canonical items; nothing else is
\* added.
C15_MergeReplacesByKey ==
    [][(mergeLast'.op = "merge" /\ ~mergeLast'.source.isNone) =>
          LET pre == canonical.order_items
              post == canonical'.order_items
              src == mergeLast'.source.order_items
              last(k) == src[CHOOSE i \in DOMAIN src :
                                /\ ItemKey(src[i]) = k
                                /\ \A j \in DOMAIN src :
                                      ItemKey(src[j]) = k => j <= i]
          IN  /\ Len(post) =
                    Len(pre)
                    + Cardinality(ItemKeysOf(src) \ ItemKeysOf(pre))
              /\ \A i \in DOMAIN pre :
                    /\ ItemKey(post[i]) = ItemKey(pre[i])
                    /\ ItemKey(pre[i]) \notin ItemKeysOf(src)
                          => post[i] = pre[i]
              /\ \A k \in ItemKeysOf(src) :
                    IF k \in ItemKeysOf(pre)
                    THEN \E i \in DOMAIN pre :
                            /\ ItemKey(pre[i]) = k
                            /\ \A j \in DOMAIN pre :
                                  ItemKey(pre[j]) = k => i <= j
                            /\ post[i] = last(k)
                    ELSE \E i \in DOMAIN post :
                            /\ i > Len(pre)
                            /\ post[i] = last(k)]_vars

\* Merging [(A,L1,2), (none,none,1)] left [(A,L1,2), (A,L2,1),
\* (none,none,1)]: the item of key (A,L1) replaced in its place, the item of
\* key (A,L2) kept, the item of the new key appended.
C15_Witness ==
    /\ mergeLast.op = "merge"
    /\ mergeLast.source.order_items =
          <<[sku |-> "A", location |-> "L1", quantity |-> 2],
            [sku |-> None, location |-> None, quantity |-> 1]>>
    /\ canonical.order_items =
          <<[sku |-> "A", location |-> "L1", quantity |-> 2],
            [sku |-> "A", location |-> "L2", quantity |-> 1],
            [sku |-> None, location |-> None, quantity |-> 1]>>

\* C16: if the (sku, location) keys of the canonical items are pairwise
\* distinct before a merge, they are pairwise distinct after it, whatever
\* the incoming record.
C16_MergeKeepsKeysUnique ==
    [][(mergeLast'.op = "merge" /\ UniqueKeys(canonical.order_items))
          => UniqueKeys(canonical'.order_items)]_vars

\* A record whose two items share the absent key (none, none) was merged
\* into a record that held neither, and the keys are distinct.
C16_Witness ==
    /\ mergeLast.op = "merge"
    /\ Len(mergeLast.source.order_items) = 2
    /\ \A i \in DOMAIN mergeLast.source.order_items :
          ItemKey(mergeLast.source.order_items[i]) = <<None, None>>
    /\ Len(canonical.order_items) = 3
    /\ UniqueKeys(canonical.order_items)
    /\ canonical.order_items[3] = mergeLast.source.order_items[2]

\* C17 (as stated): after a merge each scalar field holds the incoming value
\* if that value is present (not null and not empty), and the value it held
\* before if the incoming value is absent.
C17_PresentWinsAbsentKeeps ==
    [][(mergeLast'.op = "merge" /\ ~mergeLast'.source.isNone) =>
          LET src == mergeLast'.source
              expect(present, own, theirs) == IF present THEN theirs ELSE own
          IN  /\ canonical'.order_number =
                    expect(src.order_number \notin {None, ""},
                           canonical.order_number, src.order_number)
              /\ canonical'.pick_start_datetime =
                    expect(src.pick_start_datetime # None,
                           canonical.pick_start_datetime,
                           src.pick_start_datetime)
              /\ canonical'.pick_end_datetime =
                    expect(src.pick_end_datetime # None,
                           canonical.pick_end_datetime,
                           src.pick_end_datetime)
              /\ canonical'.picked_by_user_id =
                    expect(src.picked_by_user_id # NoUserId,
                           canonical.picked_by_user_id,
                           src.picked_by_user_id)
              /\ canonical'.picked_by_user_name =
                    expect(src.picked_by_user_name \notin {None, ""},
                           canonical.picked_by_user_name,
                           src.picked_by_user_name)
              /\ canonical'.session_status =
                    expect(src.session_status # None,
                           canonical.session_status, src.session_status)
              /\ canonical'.create_date =
                    expect(src.create_date # None,
                           canonical.create_date, src.create_date)
              /\ canonical'.session_picklist_id =
                    expect(src.session_picklist_id \notin {None, ""},
                           canonical.session_picklist_id,
                           src.session_picklist_id)]_vars

\* C18 (as stated): after every merge call, whatever its argument, the
\* canonical record's updated_date is the current time.
C18_MergeRefreshesUpdatedDate ==
    mergeLast.op = "merge" => canonical.updated_date = now

\* C19 (as stated): merge returns the canonical record it was called on, as
\* it is after the call.
C19_MergeReturnsCanonical ==
    mergeLast.op = "merge" => mergeLast.ret = canonical

\* C20 (as stated): a fetch operation that returns has raised nothing; when
\* the transport failed after the retries, when the body was not JSON, and
\* when the payload does not map to the expected structure, the list it
\* returns is empty, and in the first two cases the raw variant returns None.
C20_FetchFailuresReturnEmpty ==
    fetchLast.op # "none" =>
        /\ ~fetchLast.raised
        /\ (fetchLast.cause \in {"transport", "notjson"} \/ ~fetchLast.mappable)
              => fetchLast.parsed = <<>>
        /\ (fetchLast.op = Directions
               /\ fetchLast.cause \in {"transport", "notjson"})
              => fetchLast.raw = None

\* C21: while the service is not authenticated no fetch operation starts a
\* request, and an operation that returns from its not-authenticated branch
\* returns the empty result, has made no attempt and no backoff, has not
\* touched the directions cache, the preflight cache, the caller's task or
\* the time of the last dispatch.
C21_UnauthenticatedFailsTerminally ==
    [][/\ \A t \in Tasks :
             (~is_authenticated /\ tasks[t].pc = "idle")
                => tasks'[t].op \notin FetchOps
       /\ fetchLast'.cause = "unauthenticated" =>
             /\ ~is_authenticated
             /\ fetchLast'.parsed = <<>>
             /\ fetchLast'.raw = None
             /\ reqLast' = NoReq
             /\ dcLast' = NoOp
             /\ UNCHANGED <<directions_cache, dcWritten, cors_preflight_cache,
                            tasks, running, lastDispatch, now>>]_vars

\* A directions operation returned from its not-authenticated branch while
\* the cache still held an expired entry for the picklist.
C21_Witness ==
    /\ fetchLast.op = Directions
    /\ fetchLast.cause = "unauthenticated"
    /\ ~is_authenticated
    /\ \E i \in DOMAIN directions_cache :
          /\ directions_cache[i].key \in CallKeys
          /\ DirectionsCache_is_expired(directions_cache[i], now)

\* C22 (as stated): set(k, v) for a key k that is in the cache removes no
\* key and adds none, keeps the number of entries, and leaves k holding v
\* with the current time as its timestamp.
C22_SetOfPresentKeyEvictsNothing ==
    [][(dcLast'.op = "set" /\ dcLast'.key \in CacheKeys(directions_cache)) =>
          /\ CacheKeys(directions_cache') = CacheKeys(directions_cache)
          /\ Len(directions_cache') = Len(directions_cache)
          /\ dcLast'.key \in CacheKeys(directions_cache')
          /\ CacheEntry(directions_cache', dcLast'.key) =
                [key |-> dcLast'.key,
                 data |-> dcWritten'[dcLast'.key].data,
                 timestamp |-> now]]_vars

C24_LogoutEmptiesDirectionsCache ==
    [][(~is_authenticated' /\ pending_invalidate' = pending_invalidate + 1)
          => directions_cache' = <<>>]_vars

C26_NoSingleFlight ==
    [][/\ \A t, u \in Tasks :
             (/\ t # u
              /\ tasks[u].op = Directions
              /\ tasks[u].pc # "idle"
              /\ tasks[t].pc = "idle"
              /\ running = None
              /\ ~Truthy(DirectionsCache_get(directions_cache, tasks[u].url,
                                             now).ret))
                => ENABLED DirectionsFetch(t, tasks[u].url)
       /\ (fetchLast'.op = Directions /\ fetchLast'.cause = "payload") =>
             /\ reqLast'.url \in CacheKeys(directions_cache')
             /\ CacheEntry(directions_cache', reqLast'.url)
                   = [key |-> reqLast'.url, data |-> fetchLast'.raw,
                      timestamp |-> now']]_vars

\* Two calls for the same picklist both missed and both fetched; the second
\* response has just replaced the payload the first one stored.
C26_Witness ==
    /\ fetchLast.op = Directions
    /\ fetchLast.cause = "payload"
    /\ Truthy(fetchLast.replaced)
    /\ fetchLast.replaced # fetchLast.raw
    /\ CacheEntry(directions_cache, reqLast.url).data = fetchLast.raw

\* C27: login adopts the stored token only if there is one and it has not
\* expired, and then it returns without a request: the token becomes
\* auth_token, is_authenticated is set, nothing is sent.  Otherwise
\* check_cached_token leaves auth_token, is_authenticated and the stored
\* token as they were and login goes on to GET the login page.  With an
\* unexpired stored token the adopting return is available.
C27_LoginAdoptsOnlyLiveToken ==
    [][\A t \in Tasks :
          /\ (tasks[t].pc = "token_get" /\ tasks'[t] # tasks[t]) =>
                /\ stored_token' = stored_token
                /\ IF tasks'[t].pc = "idle"
                   THEN /\ stored_token.token # None
                        /\ ~stored_token.expired
                        /\ is_authenticated'
                        /\ auth_token' = stored_token.token
                        /\ reqLast' = NoReq
                        /\ lastDispatch' = lastDispatch
                   ELSE /\ auth_token' = auth_token
                        /\ is_authenticated' = is_authenticated
                        /\ tasks'[t].op = "login"
                        /\ tasks'[t].method = "GET"
                        /\ tasks'[t].url = LoginUrl
                        /\ tasks'[t].sends = 0
          /\ (/\ tasks[t].pc = "token_get"
              /\ running = None
              /\ stored_token.token # None
              /\ ~stored_token.expired
              /\ session_headers.idem < MaxHeaderSets)
                => ENABLED LoginAdoptToken(t)]_vars

\* login found an expired token in the store and went on to request the
\* login page: the service is not signed in and the token is still stored.
C27_Witness ==
    \E t \in Tasks :
        /\ tasks[t].op = "login"
        /\ tasks[t].url = LoginUrl
        /\ tasks[t].method = "GET"
        /\ tasks[t].pc \in {"rate", "ready"}
        /\ stored_token.token # None
        /\ stored_token.expired
        /\ ~is_authenticated
        /\ auth_token = None

\* C28: every attempt of _make_request, the first one and each retry, goes
\* through the rate-limit step before it sends.  A call enters the step when
\* it starts and again when its backoff sleep is over, so that the rate-limit
\* delay is added to the backoff; a request is sent only by a task that has
\* left the step, never before the step's delay is over.
C28_RateLimitBeforeEveryAttempt ==
    [][\A t \in Tasks :
          /\ (tasks[t].pc = "idle" /\ tasks'[t].pc # "idle") =>
                /\ tasks'[t].pc = IF request_delay > 0 THEN "rate" ELSE "ready"
                /\ tasks'[t].wake = now + request_delay
          /\ (tasks[t].pc = "backoff" /\ tasks'[t] # tasks[t]) =>
                /\ now >= tasks[t].wake
                /\ tasks'[t].pc = IF request_delay > 0 THEN "rate" ELSE "ready"
                /\ tasks'[t].wake = now + request_delay
                /\ tasks'[t].retry_count = tasks[t].retry_count + 1
          /\ (reqLast'.attempt /\ tasks'[t] # tasks[t]) =>
                /\ tasks[t].pc \in {"rate", "ready"}
                /\ now >= tasks[t].wake
                /\ reqLast'.at = now]_vars

\* A retry was sent on a rate-limited service: after the first attempt's
\* rate-limit delay, the backoff sleep and the retry's own rate-limit delay.
C28_Witness ==
    /\ reqLast.attempt
    /\ request_delay > 0
    /\ Len(reqLast.sleeps) = 1
    /\ reqLast.sends = 2
    /\ reqLast.at >= request_delay + reqLast.sleeps[1] + request_delay

\* C29 (as stated): when an attempt has sent an OPTIONS request (the
\* preflight cache had no live entry for the key), the cache afterwards holds
\* an entry for the key with the outcome and the time of that preflight,
\* whether the OPTIONS request was answered 200, answered otherwise or raised.
C29_PreflightMissAlwaysCached ==
    (reqLast.attempt /\ reqLast.pfIssued) =>
        \E e \in cors_preflight_cache :
            /\ e.key = PreflightKey(reqLast.url, session_headers)
            /\ e.success = reqLast.pfOk
            /\ e.timestamp = reqLast.at

\* C30 (as stated): the rate-limit step suspends a call until request_delay
\* has passed since the last request was issued, and no longer: a call that
\* enters the step at least request_delay after the last request goes on at
\* once, an earlier one waits for the rest of the delay.  For a retry the
\* last request is the attempt that failed, sent when the backoff sleep
\* began; for a new call it is the last dispatch, if that is recent.
C30_WaitsOnlyForRemainingDelay ==
    [][\A t \in Tasks :
          /\ (tasks[t].pc = "backoff" /\ tasks'[t] # tasks[t]) =>
                LET issued ==
                        tasks[t].wake - tasks[t].sleeps[Len(tasks[t].sleeps)]
                IN  tasks'[t].wake =
                        IF now >= issued + request_delay
                        THEN now ELSE issued + request_delay
          /\ (tasks[t].pc = "idle" /\ tasks'[t].pc # "idle"
                 /\ lastDispatch >= 0) =>
                tasks'[t].wake = lastDispatch + request_delay]_vars

\* C31 (as stated): the preflight cache follows the same TTL rule as the
\* directions cache, valid iff age <= TTL.  An attempt that finds an entry for
\* its key of age at most PreflightTtl reuses it and sends no OPTIONS request.
C31_PreflightValidAtTtl ==
    [][reqLast'.attempt =>
          \A e \in cors_preflight_cache :
              (/\ e.key = PreflightKey(reqLast'.url, session_headers)
               /\ now - e.timestamp <= PreflightTtl)
                 => ~reqLast'.pfIssued]_vars

\* C32 (as stated): a login that starts after logout() has returned never
\* adopts the token that was in the store when logout ran, wherever the
\* background invalidation task is scheduled relative to that login.
C32_LoginNeverAdoptsPreLogoutToken ==
    [][\A t \in Tasks :
          (tasks[t].pc = "token_get" /\ tasks'[t].pc = "idle"
              /\ tasks[t].afterLogout)
             => ~stored_before_logout]_vars

\* C33 (as stated): whenever the service is authenticated, auth_token is set
\* and the session's Authorization header carries that token.
C33_AuthenticatedHasToken ==
    is_authenticated =>
        /\ auth_token # None
        /\ session_headers.Authorization = auth_token

\* C34 (as stated): a login that returns False leaves the service not
\* authenticated.  Checked on the returns that are False whatever else
\* happened: the login page was not fetched (retries used up) or held no
\* form, and the credential POST that ended without a response below 400.
C34_FailedLoginNotAuthenticated ==
    [][\A t \in Tasks :
          (/\ tasks[t].op = "login"
           /\ tasks[t].pc \in {"rate", "ready"}
           /\ tasks'[t].pc = "idle"
           /\ tasks[t].method = "GET" \/ ~reqLast'.ok)
             => ~is_authenticated']_vars

C37_MergeKeepsIdentity ==
    [][mergeLast'.op = "merge" =>
          IdentityOf(canonical') = IdentityOf(canonical)]_vars

\* A record of another order, with enrichment fields, was merged: its fields
\* were taken over, its identity was not.
C37_Witness ==
    /\ mergeLast.op = "merge"
    /\ ~mergeLast.source.isNone
    /\ mergeLast.source.sale_id = "SALE2"
    /\ mergeLast.source.order_number = "ORD-2"
    /\ canonical.order_number = "ORD-2"
    /\ canonical.sale_id = "SALE1"
    /\ canonical.shipment_id = "se-1"
    /\ canonical.saved_custom_field_2

\* C38: merge is idempotent up to updated_date.  The canonical record that
\* a merge of an incoming record has produced is not changed by merging the
\* same incoming record once more: same items in the same order, same scalar
\* fields.
C38_MergeIdempotent ==
    (mergeLast.op = "merge" /\ ~mergeLast.source.isNone) =>
        LET again == SessionOrder_merge(canonical, mergeLast.source, now).self
        IN  [again EXCEPT !.updated_date = canonical.updated_date] = canonical

\* The incoming record carried two items of one key and different
\* quantities; the canonical record holds the second of them next to an item
\* of another key.
C38_Witness ==
    /\ mergeLast.op = "merge"
    /\ ~mergeLast.source.isNone
    /\ Len(mergeLast.source.order_items) = 2
    /\ ItemKey(mergeLast.source.order_items[1])
          = ItemKey(mergeLast.source.order_items[2])
    /\ mergeLast.source.order_items[1] # mergeLast.source.order_items[2]
    /\ Len(canonical.order_items) = 2
    /\ canonical.order_items[1] = mergeLast.source.order_items[2]
    /\ ItemKey(canonical.order_items[2]) # ItemKey(canonical.order_items[1])

\* C39 (as stated): a request that the service sends while it holds no
\* auth_token (before the first login, or after logout) carries no token in
\* its Authorization header.
C39_NoTokenSentAfterLogout ==
    [][(reqLast'.attempt /\ auth_token = None)
          => reqLast'.reqAuth = None]_vars

\* C40 (as stated): no attempt of a data operation (its request, and the
\* cache write that follows a response) happens while the service is not
\* authenticated: a call that was suspended when logout ran sends nothing
\* afterwards.
C40_NoDataRequestWhenLoggedOut ==
    [][\A t \in Tasks :
          (/\ reqLast'.attempt
           /\ tasks'[t] # tasks[t]
           /\ tasks[t].op \in FetchOps)
             => is_authenticated]_vars

====
